---- MODULE Spec2Model ----
(***************************************************************************)
(* iox_object_store: a database-scoped facade (IoxObjectStore) over a      *)
(* shared object store.  Every location a caller names is a RelativePath;  *)
(* RootPath turns it into an object store Path under                       *)
(* <server_id>/<database_name>/ and back.                                  *)
(*                                                                         *)
(* A Path is [directories, file_name]: the directory segments in order and *)
(* an optional file name.  Option<T> is a sequence of length 0 (None) or 1 *)
(* (Some).  A Result is [kind, value], value a sequence.                   *)
(***************************************************************************)
EXTENDS Integers, Sequences, FiniteSets, TLC

VARIABLES objects, root_path, last
vars == <<objects, root_path, last>>

----------------------------------------------------------------------------
(* Bounds of the model                                                     *)

\* longest RelativePath a caller passes
MaxLen == 2
\* most objects the backend holds at once
MaxObjects == 2
\* most batches of a listing, and most paths of one batch
MaxBatch == 2

----------------------------------------------------------------------------
(* Values                                                                  *)

\* the databases that have an IoxObjectStore on the shared backend,
\* each <<server_id, database_name>>
Stores == {<<1, "clouds">>, <<1, "rain">>, <<12, "clouds">>}
Data == {"d1", "d2"}

\* locations the callers of put/get use: the leading parts of one nested path
Chain == <<"a", "b", "c", "d">>
Locations == {SubSeq(Chain, 1, n) : n \in 0..(IF MaxLen < Len(Chain) THEN MaxLen ELSE Len(Chain))}

SeqsUpTo(S, n) == UNION {[1..k -> S] : k \in 0..n}

\* relative paths and full paths the path functions are applied to
Segments == {"foo", "bar", "transactions"}
RelativePaths == SeqsUpTo(Segments, MaxLen)
DirSegments == {"1", "12", "clouds", "rain", "foo"}
FullPaths ==
    {[directories |-> d, file_name |-> f] :
        d \in SeqsUpTo(DirSegments, MaxLen + 2), f \in {<<>>, <<"f.parquet">>}}

Result(kind, value) == [kind |-> kind, value |-> value]
Ok(v) == Result("Ok", <<v>>)
Panic == Result("Panic", <<>>)
NotFound == Result("NotFound", <<>>)
StorageFailure == Result("StorageFailure", <<>>)
NoSuchOperation == Result("NoSuchOperation", <<>>)

----------------------------------------------------------------------------
(* The object_store crate and data_types, as the facade uses them          *)

Digit == <<"0", "1", "2", "3", "4", "5", "6", "7", "8", "9">>

\* ServerId's Display: the decimal digits of the id
RECURSIVE to_string(_)
to_string(n) ==
    IF n < 10 THEN Digit[n + 1] ELSE to_string(n \div 10) \o Digit[(n % 10) + 1]

\* ObjectStore::new_path: the empty Path
new_path == [directories |-> <<>>, file_name |-> <<>>]

\* ObjectStorePath::push_dir: one more directory segment at the end
push_dir(path, part) == [path EXCEPT !.directories = Append(@, part)]

\* Path::display: every directory followed by the delimiter, then the file name
RECURSIVE display_dirs(_)
display_dirs(dirs) ==
    IF dirs = <<>> THEN "" ELSE (Head(dirs) \o "/") \o display_dirs(Tail(dirs))
display(path) ==
    display_dirs(path.directories)
        \o (IF path.file_name = <<>> THEN "" ELSE path.file_name[1])

\* DirsAndFileName::parts_after_prefix: None unless the prefix's directories
\* lead self's directories; then the remaining directories and the file name
parts_after_prefix(self, prefix) ==
    LET n == Len(prefix.directories) IN
    IF /\ n <= Len(self.directories)
       /\ SubSeq(self.directories, 1, n) = prefix.directories
    THEN <<SubSeq(self.directories, n + 1, Len(self.directories)) \o self.file_name>>
    ELSE <<>>

\* PathPart's Display
part_to_string(part) == part

EmptyStore == [a \in {} |-> "d1"]

\* ObjectStore::put: the object at the location becomes the data and all
\* others stay; a backend error (fail) writes nothing
store_put(objs, location, bytes, fail) ==
    IF fail THEN [result |-> StorageFailure, objects |-> objs]
    ELSE [result |-> Ok("unit"),
          objects |-> [a \in DOMAIN objs \cup {location} |->
                          IF a = location THEN bytes ELSE objs[a]]]

\* ObjectStore::get: the data at the location, NotFound when there is none
store_get(objs, location, fail) ==
    IF fail THEN StorageFailure
    ELSE IF location \in DOMAIN objs THEN Ok(objs[location]) ELSE NotFound

----------------------------------------------------------------------------
(* RootPath                                                                *)

RootPath_new(root, server_id, database_name) ==
    push_dir(push_dir(root, to_string(server_id)), database_name)

RECURSIVE join_parts(_, _)
join_parts(path, parts) ==
    IF parts = <<>> THEN path
    ELSE join_parts(push_dir(path, Head(parts)), Tail(parts))

RECURSIVE join_reversed(_, _)
join_reversed(root, relative_parts) ==
    IF relative_parts = <<>> THEN root
    ELSE push_dir(join_reversed(root, Tail(relative_parts)), Head(relative_parts))

join(root, relative_parts) == join_parts(root, relative_parts)

relative_lenient(root, full_path) ==
    LET after == parts_after_prefix(full_path, root) IN
    IF after = <<>> THEN Ok(<<>>)
    ELSE Ok([i \in 1..Len(after[1]) |-> part_to_string(after[1][i])])

relative_keeps_database(root, full_path) ==
    LET after == parts_after_prefix(full_path, root) IN
    IF after = <<>> THEN Panic
    ELSE Ok(<<root.directories[Len(root.directories)]>>
            \o [i \in 1..Len(after[1]) |-> part_to_string(after[1][i])])

\* Ok(parts of the RelativePath), or the panic of expect() on None
relative(root, full_path) ==
    LET after == parts_after_prefix(full_path, root) IN
    IF after = <<>> THEN Panic
    ELSE Ok([i \in 1..Len(after[1]) |-> part_to_string(after[1][i])])

----------------------------------------------------------------------------
(* IoxObjectStore                                                          *)

\* the public operations impl IoxObjectStore defines
Methods ==
    {"new", "database_name", "data_path", "put", "list", "catalog_transactions", "get"}

\* IoxObjectStore::new: the root_path field of the store of database s
IoxObjectStore_new(s) == RootPath_new(new_path, s[1], s[2])

data_path_without_database(s) ==
    push_dir(push_dir(new_path, to_string(s[1])), "data")

data_path(s) ==
    push_dir(push_dir(push_dir(new_path, to_string(s[1])), s[2]), "data")

put_unscoped(s, location, bytes, objs, fail) ==
    store_put(objs, join(new_path, location), bytes, fail)

put(s, location, bytes, objs, fail) ==
    LET path == join(root_path[s], location) IN
    store_put(objs, path, bytes, fail)

get(s, location, objs, fail) ==
    LET path == join(root_path[s], location) IN
    store_get(objs, path, fail)

\* unimplemented!(): the call panics whatever the prefix and the backend hold
list(s, prefix, objs) == Panic

Transaction_new(relative_path) == [relative_path |-> relative_path]

\* `.await?.map_ok(|paths| paths.into_iter().map(Transaction::new).collect())`:
\* an Ok listing has every path of every batch wrapped, anything else passes
map_ok_transactions(listing) ==
    IF listing.kind = "Ok"
    THEN Ok([b \in 1..Len(listing.value[1]) |->
                [i \in 1..Len(listing.value[1][b]) |->
                    Transaction_new(listing.value[1][b][i])]])
    ELSE listing

TransactionsPrefix_singular == <<"transaction">>

\* RelativePath { parts: vec!["transactions".into()] }
TransactionsPrefix == <<"transactions">>

catalog_transactions_without_list(s, objs) == Ok(<<>>)

catalog_transactions(s, objs) ==
    map_ok_transactions(list(s, <<TransactionsPrefix>>, objs))

----------------------------------------------------------------------------
(* The facade in use: calls of the stores' operations on one shared backend *)

Call(op, s, location, data, result) ==
    [op |-> op, store |-> s, location |-> location, data |-> data, result |-> result]

NoCall == Call("none", <<1, "clouds">>, <<>>, "", Result("none", <<>>))

Init ==
    /\ objects = EmptyStore
    /\ root_path = [s \in Stores |-> IoxObjectStore_new(s)]
    /\ last = NoCall

Put(s, location, bytes, fail) ==
    LET r == put(s, location, bytes, objects, fail) IN
    /\ Cardinality(DOMAIN r.objects) <= MaxObjects
    /\ objects' = r.objects
    /\ last' = Call("put", s, location, bytes, r.result)
    /\ UNCHANGED root_path

Get(s, location, fail) ==
    /\ last' = Call("get", s, location, "", get(s, location, objects, fail))
    /\ UNCHANGED <<objects, root_path>>

List(s, prefix) ==
    /\ last' = Call("list", s, prefix, "", list(s, prefix, objects))
    /\ UNCHANGED <<objects, root_path>>

CatalogTransactions(s) ==
    /\ last' = Call("catalog_transactions", s, TransactionsPrefix, "",
                    catalog_transactions(s, objects))
    /\ UNCHANGED <<objects, root_path>>

DataPath(s) ==
    /\ last' = Call("data_path", s, <<>>, "", Ok(data_path(s)))
    /\ UNCHANGED <<objects, root_path>>

\* an operation the facade does not define cannot be called: nothing happens
Unsupported(op, s, location) ==
    /\ op \notin Methods
    /\ last' = Call(op, s, location, "", NoSuchOperation)
    /\ UNCHANGED <<objects, root_path>>

Next ==
    \/ \E s \in Stores, l \in Locations, d \in Data, f \in BOOLEAN : Put(s, l, d, f)
    \/ \E s \in Stores, l \in Locations, f \in BOOLEAN : Get(s, l, f)
    \/ \E s \in Stores, p \in {<<>>} \cup {<<l>> : l \in Locations} : List(s, p)
    \/ \E s \in Stores : CatalogTransactions(s)
    \/ \E s \in Stores : DataPath(s)
    \/ \E s \in Stores, l \in Locations : Unsupported("delete", s, l)
    \/ \E s \in Stores : Unsupported("catalog_path", s, <<>>)

Spec == Init /\ [][Next]_vars

----------------------------------------------------------------------------
(* The path functions, each applied once to an input of a bounded set      *)

ListedPaths == {<<"transactions">>, <<"transactions", "a">>}
Listings ==
    {Ok(b) : b \in SeqsUpTo(SeqsUpTo(ListedPaths, MaxBatch), MaxBatch)}
        \cup {StorageFailure, Panic}

\* backends a listing may meet: empty, or one object of some database
FnBackends ==
    {EmptyStore} \cup
    {[a \in {join(IoxObjectStore_new(s), l)} |-> "d1"] :
        s \in Stores, l \in {<<"transactions", "t1">>, <<"data">>}}

InitFn ==
    /\ objects \in FnBackends
    /\ root_path = [s \in Stores |-> IoxObjectStore_new(s)]
    /\ last = NoCall

FnJoin(s, relative_parts) ==
    /\ last' = Call("join", s, relative_parts, "", Ok(join(root_path[s], relative_parts)))
    /\ UNCHANGED <<objects, root_path>>

FnRelative(s, full_path) ==
    /\ last' = Call("relative", s, full_path, "", relative(root_path[s], full_path))
    /\ UNCHANGED <<objects, root_path>>

FnMapOk(s, listing) ==
    /\ last' = Call("map_ok", s, listing, "", map_ok_transactions(listing))
    /\ UNCHANGED <<objects, root_path>>

FnCatalogTransactions(s) == CatalogTransactions(s)

\* each behaviour applies one function to one input
NotCalled == last.op = "none"

JoinOnce == NotCalled /\ \E s \in Stores, p \in RelativePaths : FnJoin(s, p)

RelativeOnce == NotCalled /\ \E s \in Stores, f \in FullPaths : FnRelative(s, f)

MapOkOnce == NotCalled /\ \E l \in Listings : FnMapOk(<<1, "clouds">>, l)

CatalogTransactionsOnce == NotCalled /\ \E s \in Stores : FnCatalogTransactions(s)

NextFn == JoinOnce \/ RelativeOnce \/ MapOkOnce \/ CatalogTransactionsOnce

SpecFn == InitFn /\ [][NextFn]_vars

----------------------------------------------------------------------------
(* Properties                                                              *)

\* the segments <server_id>, <database_name> of the root of database s
RootSegments(s) == <<to_string(s[1]), s[2]>>

IsPrefix(p, q) == Len(p) <= Len(q) /\ SubSeq(q, 1, Len(p)) = p
IsStrictPrefix(p, q) == Len(p) < Len(q) /\ SubSeq(q, 1, Len(p)) = p

DirsOnly(dirs) == [directories |-> dirs, file_name |-> <<>>]

Range(f) == {f[i] : i \in DOMAIN f}

\* the object at address a differs before and after the step
Changed(a) ==
    \/ (a \in DOMAIN objects) # (a \in DOMAIN objects')
    \/ a \in DOMAIN objects /\ a \in DOMAIN objects' /\ objects[a] # objects'[a]

\* C1: round trip: for every root and every RelativePath p (the empty one
\* included), relative (strip) of join(p) returns normally with exactly p
C1_RoundTrip ==
    last.op = "join" =>
        relative(root_path[last.store], last.result.value[1]) = Ok(last.location)

C1_Witness ==
    /\ last.op = "join"
    /\ last.store = <<12, "clouds">>
    /\ last.location = <<"transactions", "foo">>

\* C2: join(p) is exactly [server_id, database_name] followed by the segments
\* of p in their order, with no file name, and the root itself is as built
C2_JoinPrefix ==
    last.op = "join" =>
        /\ last.result = Ok(DirsOnly(RootSegments(last.store) \o last.location))
        /\ root_path[last.store] = DirsOnly(RootSegments(last.store))

C2_Witness ==
    /\ last.op = "join"
    /\ last.store = <<1, "clouds">>
    /\ last.location = <<"foo", "bar">>
    /\ last.result.value[1].directories = <<"1", "clouds", "foo", "bar">>

\* C3 as stated: every address a put through a store changes has the store's
\* root segments as a strict prefix, and no other object changes
C3_StrictlyInsideRoot ==
    [][last'.op = "put" =>
        \A a \in DOMAIN objects \cup DOMAIN objects' :
            Changed(a) => IsStrictPrefix(RootSegments(last'.store), a.directories)]_vars

\* C3 amended: every address a put through a store changes is the store's
\* root segments followed by the location's segments: the root is a prefix of
\* it, a strict one unless the location is empty, and no other object changes
C3_WriteConfinement ==
    [][last'.op = "put" =>
        \A a \in DOMAIN objects \cup DOMAIN objects' :
            Changed(a) =>
                /\ a = DirsOnly(RootSegments(last'.store) \o last'.location)
                /\ IsPrefix(RootSegments(last'.store), a.directories)
                /\ last'.location # <<>> =>
                        IsStrictPrefix(RootSegments(last'.store), a.directories)]_vars

C3_Witness ==
    /\ last.op = "put"
    /\ last.result.kind = "Ok"
    /\ DirsOnly(RootSegments(last.store) \o last.location) \in DOMAIN objects
    /\ \E a \in DOMAIN objects : ~IsPrefix(RootSegments(last.store), a.directories)

\* C4: data_path() is [server_id, database_name, "data"], the root followed by
\* the one segment "data"; "1/clouds/data/" for server 1, database clouds
C4_DataPath ==
    last.op = "data_path" =>
        /\ last.result = Ok(DirsOnly(RootSegments(last.store) \o <<"data">>))
        /\ last.result.value[1] = join(root_path[last.store], <<"data">>)
        /\ last.store = <<1, "clouds">> => display(last.result.value[1]) = "1/clouds/data/"

C4_Witness ==
    /\ last.op = "data_path"
    /\ last.store = <<1, "clouds">>
    /\ display(last.result.value[1]) = "1/clouds/data/"

SameLocation ==
    last'.store = last.store /\ last'.location = last.location

\* C6: a successful put(p, d) followed by get(p) returns d; delete(p) followed
\* by get(p) fails with NotFound; get(p) of a p with no object fails with
\* NotFound (a get the backend fails is none of these cases)
C6_PutGetDelete ==
    [][/\ (last.op = "put" /\ last.result.kind = "Ok" /\ last'.op = "get"
            /\ SameLocation /\ last'.result # StorageFailure)
          => last'.result = Ok(last.data)
       /\ (last.op = "delete" /\ last'.op = "get"
            /\ SameLocation /\ last'.result # StorageFailure)
          => last'.result = NotFound
       /\ (last'.op = "get" /\ last'.result # StorageFailure
            /\ DirsOnly(RootSegments(last'.store) \o last'.location) \notin DOMAIN objects)
          => last'.result = NotFound]_vars

\* C7: delete(p) succeeds whether or not p holds an object
C7_IdempotentDelete ==
    last.op = "delete" => last.result.kind = "Ok"

\* C8: list(prefix) returns successfully and yields exactly relative(a) for
\* every backend address a under join(prefix), or under the root without one
C8_ListingScope ==
    last.op = "list" =>
        LET root == DirsOnly(RootSegments(last.store))
            base == IF last.location = <<>> THEN root
                    ELSE DirsOnly(root.directories \o last.location[1])
            under == {a \in DOMAIN objects : IsPrefix(base.directories, a.directories)}
        IN  /\ last.result.kind = "Ok"
            /\ UNION {Range(b) : b \in Range(last.result.value[1])}
                  = {SubSeq(a.directories, 3, Len(a.directories)) \o a.file_name : a \in under}

\* result r is listing l with every path wrapped one to one in a Transaction
WrappedOneToOne(l, r) ==
    /\ r.kind = l.kind
    /\ l.kind # "Ok" => r = l
    /\ l.kind = "Ok" =>
        /\ Len(r.value[1]) = Len(l.value[1])
        /\ \A b \in 1..Len(l.value[1]) :
            /\ Len(r.value[1][b]) = Len(l.value[1][b])
            /\ \A i \in 1..Len(l.value[1][b]) :
                r.value[1][b][i] = [relative_path |-> l.value[1][b][i]]

C10_ScopeViolationIsFatal ==
    last.op = "relative" =>
        IF IsPrefix(RootSegments(last.store), last.location.directories)
        THEN last.result.kind = "Ok"
        ELSE last.result = Panic

C10_Witness ==
    /\ last.op = "relative"
    /\ last.location.directories = <<"1", "rain", "foo">>
    /\ last.store = <<1, "clouds">>
    /\ last.result = Panic

====
